---- MODULE Spec2Model ----
(***************************************************************************)
(* Model of src/src/services/db.ts: the IndexedDB service of the image     *)
(* gallery.  Two object stores ('groups', 'images'), each with an          *)
(* auto-increment key generator; every exported function opens the         *)
(* database, opens one transaction on one store and settles its promise    *)
(* from a request's success or error event.                                *)
(*                                                                         *)
(* Engine semantics used (IndexedDB): transactions whose scopes overlap    *)
(* run one at a time in creation order; a request error that no handler    *)
(* cancels aborts its transaction, which undoes every write the            *)
(* transaction made; a transaction commits by itself once it has no        *)
(* pending request, after the last success handler has returned; open      *)
(* requests on one database are answered in the order they were made.      *)
(*                                                                         *)
(* Spec, SpecSeq and SpecValid take every commit to succeed and every      *)
(* open request to be answered by success or error; SpecCommit adds a      *)
(* commit that fails, SpecLive an open request answered by blocked.        *)
(*                                                                         *)
(* Timestamps: new Date().toISOString() is modelled by the integer clock   *)
(* value it formats; the ISO format is injective and order preserving.     *)
(***************************************************************************)
EXTENDS Integers, Sequences, FiniteSets, TLC

\* ---------------------------------------------------------------- bounds
\* Largest key either key generator hands out.
MaxGroups == 2
MaxImages == 2
\* Largest clock reading.
MaxClock == 1
\* Calls made in one session.
MaxCalls == 2
\* Calls made on the provider in one session.
MaxEvents == 3

\* Concurrent callers of the service (pending promises at one time).
Callers == {"c1", "c2"}
\* Name arguments (the empty string included) and blob payloads.
Names == {"", "a"}
Blobs == {"b1"}

GroupIds == 1..MaxGroups
ImageIds == 1..MaxImages
Stores == {"groups", "images"}

VARIABLES
    store,   \* store[s] = [recs |-> key -> record, key |-> key generator's current number]
    txq,     \* txq[s]: live transactions on store s, oldest first
    undo,    \* undo[s]: store[s] as it was when the running transaction on s started
    calls,   \* calls[p]: the call caller p has in flight, its promise and its position
    clock,   \* the time Date() reads
    ncalls,  \* calls made so far
    opening, \* callers whose indexedDB.open request is pending, oldest first
    opens,   \* indexedDB.open requests made so far
    provider \* ImageGalleryProvider: its React state and its handlers in flight

vars == <<store, txq, undo, calls, clock, ncalls, opening, opens, provider>>

groups == store["groups"].recs
images == store["images"].recs

\* ------------------------------------------------------------ pure helpers
\* The map f without key k (IDBObjectStore.delete; a no-op when k is absent).
Without(f, k) == [x \in (DOMAIN f) \ {k} |-> f[x]]

\* The map f with key k bound to r (IDBObjectStore.put / add).
With(f, k, r) == [x \in (DOMAIN f) \cup {k} |-> IF x = k THEN r ELSE f[x]]

Min(S) == CHOOSE m \in S : \A x \in S : m <= x

RECURSIVE Ascending(_, _)
\* The records of f with keys in S, in ascending key order (getAll order).
Ascending(f, S) ==
    IF S = {} THEN << >>
    ELSE LET k == Min(S) IN <<f[k]>> \o Ascending(f, S \ {k})

\* Mutant of IndexGroupId: the index is not consulted, every image matches.
IndexGroupId_all(imgs, g) == DOMAIN imgs

\* IDBIndex 'groupId': the primary keys of the images whose groupId is g.
IndexGroupId(imgs, g) == {i \in DOMAIN imgs : imgs[i].groupId = g}

NoRecs == [x \in {} |-> x]
NoUndo == [recs |-> NoRecs, key |-> 0]

Idle == [op |-> "none", id |-> 0, name |-> "", blob |-> "",
         pc |-> "idle", outcome |-> "none", err |-> "", fault |-> FALSE,
         resultId |-> 0, result |-> << >>, rec |-> << >>]


\* The instants a Date() call may read when the last reading was t.
Now(t) == {t, t + 1} \cap (0..MaxClock)

\* The text each rejection starts with, by function and position.
ErrorMessage(op, pc) ==
    CASE pc \in {"openDB", "openDB2"} -> "Database failed to open"
      [] op = "createGroup" -> "Failed to create group"
      [] op = "getAllGroups" -> "Failed to get groups"
      [] op = "getGroup" -> "Failed to get group"
      [] op = "renameGroup" /\ pc = "get" -> "Failed to get group"
      [] op = "renameGroup" /\ pc = "put" -> "Failed to rename group"
      [] op = "deleteGroup" /\ pc = "cursor" -> "Failed to delete images"
      [] op = "deleteGroup" /\ pc = "request" -> "Failed to delete group"
      [] op = "addImage" -> "Failed to add image"
      [] op = "getImagesByGroup" -> "Failed to get images"
      [] op = "renameImage" /\ pc = "get" -> "Failed to get image"
      [] op = "renameImage" /\ pc = "put" -> "Failed to rename image"
      [] op = "deleteImage" -> "Failed to delete image"
      [] OTHER -> "Unknown error"

GroupNotFound == "Group with ID not found"
ImageNotFound == "Image with ID not found"

\* The store the pending request of a call at (op, pc) is on.
Scope(op, pc) ==
    IF op \in {"addImage", "getImagesByGroup", "renameImage", "deleteImage"}
       \/ (op = "deleteGroup" /\ pc = "cursor")
    THEN "images" ELSE "groups"

\* ------------------------------------------------------------ transactions
\* db.transaction([s], mode) by caller p: a new transaction, last in line.
Transaction(s, p) == [txq EXCEPT ![s] = Append(@, [owner |-> p, state |-> "queued"])]

\* Caller p's transaction on s is the oldest live one and still has a request.
Running(s, p) ==
    /\ Len(txq[s]) > 0
    /\ txq[s][1].owner = p
    /\ txq[s][1].state # "finished"

\* store[s] as it was when the transaction now first in line started.
Snapshot(s) == IF txq[s][1].state = "queued" THEN store[s] ELSE undo[s]

\* The first transaction in line has run a request and has another pending.
KeepActive(s) ==
    /\ txq' = [txq EXCEPT ![s][1].state = "active"]
    /\ undo' = [undo EXCEPT ![s] = Snapshot(s)]

\* The first transaction in line has run its last request: it will commit.
Finish(s) ==
    /\ txq' = [txq EXCEPT ![s][1].state = "finished"]
    /\ undo' = [undo EXCEPT ![s] = Snapshot(s)]

\* The first transaction in line aborts: its writes are undone.
Abort(s) ==
    /\ txq' = [txq EXCEPT ![s] = Tail(@)]
    /\ store' = [store EXCEPT ![s] = Snapshot(s)]
    /\ undo' = [undo EXCEPT ![s] = NoUndo]

\* --------------------------------------------------------------- promises
\* Caller p's open request is the oldest pending one: it is answered.
Opened(p) ==
    /\ opening # << >>
    /\ Head(opening) = p
    /\ opening' = Tail(opening)

InFlight(c) == c.pc \notin {"idle", "settled"}

\* A call of function op with the given arguments: it runs up to `await openDB()`.
Call(p, op, id, name, blob) ==
    /\ calls[p].pc = "idle"
    /\ ncalls < MaxCalls
    /\ ncalls' = ncalls + 1
    /\ opening' = Append(opening, p)
    /\ opens' = opens + 1
    /\ UNCHANGED provider
    /\ calls' = [calls EXCEPT ![p] =
           [Idle EXCEPT !.op = op, !.id = id, !.name = name, !.blob = blob,
                        !.pc = "openDB", !.outcome = "pending"]]
    /\ UNCHANGED <<store, txq, undo, clock>>

\* resolve(): the promise of caller p's call is fulfilled.
Resolve(c, id, result) ==
    [c EXCEPT !.pc = "settled", !.outcome = "resolved",
              !.resultId = id, !.result = result, !.rec = << >>]

\* reject(new Error(msg)): the promise of caller p's call is rejected.
Reject(c, msg, fault) ==
    [c EXCEPT !.pc = "settled", !.outcome = "rejected", !.err = msg,
              !.fault = fault, !.rec = << >>]

\* selectedGroupId === null.
Null == 0

\* A handler slot of the provider with no call in it.
NoHandler == [fn |-> "none", id |-> 0, name |-> "", selectedGroupId |-> Null,
              pc |-> "idle"]

\* The provider as mounted: useState(null), useState([]), nothing in flight.
Mounted ==
    [selectedGroupId |-> Null, images |-> << >>,
     loading |-> [g \in GroupIds |-> 0],
     running |-> [p \in Callers |-> NoHandler]]

\* The database as an earlier session left it: just created (both stores
\* empty), or holding group 1 with image 1, both written at time 0.
Persisted ==
    { [s \in Stores |-> [recs |-> NoRecs, key |-> 0]],
      [groups |-> [recs |-> <<[id |-> 1, name |-> "a", createdAt |-> 0,
                               updatedAt |-> 0]>>,
                   key |-> 1],
       images |-> [recs |-> <<[id |-> 1, groupId |-> 1, name |-> "a",
                               blob |-> "b1", createdAt |-> 0]>>,
                   key |-> 1]] }

Init ==
    /\ store \in Persisted
    /\ txq = [s \in Stores |-> << >>]
    /\ undo = [s \in Stores |-> NoUndo]
    /\ calls = [p \in Callers |-> Idle]
    /\ clock = 0
    /\ ncalls = 0
    /\ opening = << >>
    /\ opens = 0
    /\ provider = Mounted

\* ------------------------------------------------------------------ openDB
\* An object store as db.createObjectStore makes it: no record, generator at 0.
NoStore == [recs |-> NoRecs, key |-> 0]

\* Mutant of onupgradeneeded: no contains() check, both stores are made anew.
onupgradeneeded_recreate(db) == [s \in Stores |-> NoStore]

\* request.onupgradeneeded on the database db (DOMAIN db is
\* db.objectStoreNames): each of 'groups' and 'images' is created unless
\* objectStoreNames contains it.
onupgradeneeded(db) ==
    [s \in Stores |-> IF s \in DOMAIN db THEN db[s] ELSE NoStore]

\* An open request of an older database: the upgrade step runs on it.
openDB_onupgradeneeded ==
    /\ opens < MaxCalls
    /\ opens' = opens + 1
    /\ UNCHANGED provider
    /\ store' = onupgradeneeded(store)
    /\ UNCHANGED <<txq, undo, calls, clock, ncalls, opening>>

\* request.onerror of indexedDB.open: the function's promise rejects.
openDB_onerror(p) ==
    /\ calls[p].pc \in {"openDB", "openDB2"}
    /\ Opened(p)
    /\ calls' = [calls EXCEPT ![p] =
           Reject(@, ErrorMessage(calls[p].op, calls[p].pc), TRUE)]
    /\ UNCHANGED <<store, txq, undo, clock, ncalls, opens, provider>>

\* Mutant of request_onerror: the promise rejects but the transaction's
\* writes stay.
request_onerror_keep(p) ==
    /\ calls[p].pc \in {"request", "get", "put", "cursor"}
    /\ Running(Scope(calls[p].op, calls[p].pc), p)
    /\ txq' = [txq EXCEPT ![Scope(calls[p].op, calls[p].pc)] = Tail(@)]
    /\ undo' = [undo EXCEPT ![Scope(calls[p].op, calls[p].pc)] = NoUndo]
    /\ calls' = [calls EXCEPT ![p] =
           Reject(@, ErrorMessage(calls[p].op, calls[p].pc), TRUE)]
    /\ UNCHANGED <<store, clock>>
    /\ UNCHANGED <<ncalls, opening, opens, provider>>

\* Mutant of request_onerror: deleteGroup swallows a failure of its image
\* phase and goes on to delete the group row.
request_onerror_goOn(p) ==
    /\ calls[p].pc \in {"request", "get", "put", "cursor"}
    /\ Running(Scope(calls[p].op, calls[p].pc), p)
    /\ store' = [store EXCEPT ![Scope(calls[p].op, calls[p].pc)] =
           Snapshot(Scope(calls[p].op, calls[p].pc))]
    /\ undo' = [undo EXCEPT ![Scope(calls[p].op, calls[p].pc)] = NoUndo]
    /\ IF calls[p].pc = "cursor"
       THEN /\ calls' = [calls EXCEPT ![p].pc = "request"]
            /\ txq' = [txq EXCEPT !["images"] = Tail(@),
                                  !["groups"] = Append(@, [owner |-> p, state |-> "queued"])]
       ELSE /\ calls' = [calls EXCEPT ![p] =
                   Reject(@, ErrorMessage(calls[p].op, calls[p].pc), TRUE)]
            /\ txq' = [txq EXCEPT ![Scope(calls[p].op, calls[p].pc)] = Tail(@)]
    /\ UNCHANGED clock
    /\ UNCHANGED <<ncalls, opening, opens, provider>>

\* Any request's onerror (or that of the cursor request when the transaction
\* aborts under it): the promise rejects and the transaction aborts.
request_onerror(p) ==
    /\ calls[p].pc \in {"request", "get", "put", "cursor"}
    /\ Running(Scope(calls[p].op, calls[p].pc), p)
    /\ Abort(Scope(calls[p].op, calls[p].pc))
    /\ calls' = [calls EXCEPT ![p] =
           Reject(@, ErrorMessage(calls[p].op, calls[p].pc), TRUE)]
    /\ UNCHANGED clock
    /\ UNCHANGED <<ncalls, opening, opens, provider>>

\* The first transaction on s has no pending request: it commits.
oncomplete(s) ==
    /\ Len(txq[s]) > 0
    /\ txq[s][1].state = "finished"
    /\ txq' = [txq EXCEPT ![s] = Tail(@)]
    /\ undo' = [undo EXCEPT ![s] = NoUndo]
    /\ UNCHANGED <<store, calls, clock>>
    /\ UNCHANGED <<ncalls, opening, opens, provider>>

\* The first transaction on s has run its last request and fails to commit
\* (quota or I/O error at commit): it aborts and its writes are undone.  No
\* function listens to the transaction, so no promise hears of it.
transaction_onabort(s) ==
    /\ Len(txq[s]) > 0
    /\ txq[s][1].state = "finished"
    /\ Abort(s)
    /\ UNCHANGED <<calls, clock, ncalls, opening, opens, provider>>

\* The open request of caller p gets a blocked event: openDB sets no
\* onblocked handler, so the promise stays pending with the request.
openDB_onblocked(p) ==
    /\ calls[p].pc \in {"openDB", "openDB2"}
    /\ opening # << >> /\ Head(opening) = p
    /\ calls' = [calls EXCEPT ![p].pc = "blocked"]
    /\ UNCHANGED <<store, txq, undo, clock, ncalls, opening, opens, provider>>

\* What a promise is rejected with when its executor throws: the engine's
\* own exception object, as thrown.
DOMException == "DOMException"

\* The database opened and the executor of the function's promise throws
\* while opening the transaction or issuing its first request (an invalid
\* key, a value that cannot be cloned, a connection that is closing).  No
\* function has a try/catch: the promise rejects with the exception thrown.
executor_throw(p) ==
    /\ calls[p].pc \in {"openDB", "openDB2"}
    /\ ~(calls[p].op = "deleteGroup" /\ calls[p].pc = "openDB")
    /\ Opened(p)
    /\ calls' = [calls EXCEPT ![p] = Reject(@, DOMException, TRUE)]
    /\ UNCHANGED <<store, txq, undo, clock, ncalls, opens, provider>>

\* The caller has taken the settled promise's value and may call again.
Return(p) ==
    /\ calls[p].pc = "settled"
    /\ calls' = [calls EXCEPT ![p] = Idle]
    /\ UNCHANGED <<store, txq, undo, clock, ncalls, opening, opens, provider>>

\* ------------------------------------------------------------ createGroup
\* createGroup(name), up to `await openDB()`.
createGroup(p) ==
    /\ store["groups"].key
         + Cardinality({q \in Callers : calls[q].op = "createGroup" /\ InFlight(calls[q])})
         < MaxGroups
    /\ \E name \in Names : Call(p, "createGroup", 0, name, "")

\* Mutant of createGroup_executor: updatedAt is read before createdAt.
createGroup_executor_swapped(p) ==
    /\ calls[p].op = "createGroup" /\ calls[p].pc = "openDB"
    /\ Opened(p)
    /\ \E updatedAt \in Now(clock) : \E createdAt \in Now(updatedAt) :
         /\ calls' = [calls EXCEPT ![p].pc = "request",
                ![p].rec = <<[name |-> calls[p].name, createdAt |-> createdAt,
                              updatedAt |-> updatedAt]>>]
         /\ clock' = createdAt
    /\ txq' = Transaction("groups", p)
    /\ UNCHANGED <<store, undo>>
    /\ UNCHANGED <<ncalls, opens, provider>>

\* The database opened: the transaction, the record with its two Date()
\* readings, and store.add(group).
createGroup_executor(p) ==
    /\ calls[p].op = "createGroup" /\ calls[p].pc = "openDB"
    /\ Opened(p)
    /\ \E createdAt \in Now(clock) : \E updatedAt \in Now(createdAt) :
         /\ calls' = [calls EXCEPT ![p].pc = "request",
                ![p].rec = <<[name |-> calls[p].name, createdAt |-> createdAt,
                              updatedAt |-> updatedAt]>>]
         /\ clock' = updatedAt
    /\ txq' = Transaction("groups", p)
    /\ UNCHANGED <<store, undo>>
    /\ UNCHANGED <<ncalls, opens, provider>>

\* The record as stored under the key the generator assigns (keyPath 'id').
GroupRecord(input, id) ==
    [id |-> id, name |-> input.name, createdAt |-> input.createdAt,
     updatedAt |-> input.updatedAt]

\* Mutant of createGroup_onsuccess: the promise resolves with the generator's
\* number before the add, not with the key of the record added.
createGroup_onsuccess_stale(p) ==
    /\ calls[p].op = "createGroup" /\ calls[p].pc = "request"
    /\ Running("groups", p)
    /\ LET id == store["groups"].key + 1 IN
         /\ store' = [store EXCEPT !["groups"] =
                [recs |-> With(@.recs, id, GroupRecord(calls[p].rec[1], id)),
                 key |-> id]]
         /\ calls' = [calls EXCEPT ![p] = Resolve(@, store["groups"].key, << >>)]
    /\ Finish("groups")
    /\ UNCHANGED clock
    /\ UNCHANGED <<ncalls, opening, opens, provider>>

\* request.onsuccess of store.add(group): resolve(request.result).
createGroup_onsuccess(p) ==
    /\ calls[p].op = "createGroup" /\ calls[p].pc = "request"
    /\ Running("groups", p)
    /\ LET id == store["groups"].key + 1 IN
         /\ store' = [store EXCEPT !["groups"] =
                [recs |-> With(@.recs, id, GroupRecord(calls[p].rec[1], id)),
                 key |-> id]]
         /\ calls' = [calls EXCEPT ![p] = Resolve(@, id, << >>)]
    /\ Finish("groups")
    /\ UNCHANGED clock
    /\ UNCHANGED <<ncalls, opening, opens, provider>>

\* ----------------------------------------------------------- getAllGroups
getAllGroups(p) == Call(p, "getAllGroups", 0, "", "")

getAllGroups_executor(p) ==
    /\ calls[p].op = "getAllGroups" /\ calls[p].pc = "openDB"
    /\ Opened(p)
    /\ calls' = [calls EXCEPT ![p].pc = "request"]
    /\ txq' = Transaction("groups", p)
    /\ UNCHANGED <<store, undo, clock>>
    /\ UNCHANGED <<ncalls, opens, provider>>

\* The sequence seq back to front.
Reverse(seq) == [k \in 1..Len(seq) |-> seq[Len(seq) + 1 - k]]

\* Mutant of getAllGroups_onsuccess: the records come newest first.
getAllGroups_onsuccess_reversed(p) ==
    /\ calls[p].op = "getAllGroups" /\ calls[p].pc = "request"
    /\ Running("groups", p)
    /\ calls' = [calls EXCEPT ![p] =
           Resolve(@, 0, Reverse(Ascending(groups, DOMAIN groups)))]
    /\ Finish("groups")
    /\ UNCHANGED <<store, clock>>
    /\ UNCHANGED <<ncalls, opening, opens, provider>>

\* request.onsuccess of store.getAll(): resolve(request.result).
getAllGroups_onsuccess(p) ==
    /\ calls[p].op = "getAllGroups" /\ calls[p].pc = "request"
    /\ Running("groups", p)
    /\ calls' = [calls EXCEPT ![p] = Resolve(@, 0, Ascending(groups, DOMAIN groups))]
    /\ Finish("groups")
    /\ UNCHANGED <<store, clock>>
    /\ UNCHANGED <<ncalls, opening, opens, provider>>

\* --------------------------------------------------------------- getGroup
getGroup(p) == \E id \in GroupIds : Call(p, "getGroup", id, "", "")

getGroup_executor(p) ==
    /\ calls[p].op = "getGroup" /\ calls[p].pc = "openDB"
    /\ Opened(p)
    /\ calls' = [calls EXCEPT ![p].pc = "request"]
    /\ txq' = Transaction("groups", p)
    /\ UNCHANGED <<store, undo, clock>>
    /\ UNCHANGED <<ncalls, opens, provider>>

\* store.get(id): the record, or undefined (the empty sequence here).
Get(recs, id) == IF id \in DOMAIN recs THEN <<recs[id]>> ELSE << >>

\* Mutant of getGroup_onsuccess: a missing record rejects, as in renameGroup.
getGroup_onsuccess_strict(p) ==
    /\ calls[p].op = "getGroup" /\ calls[p].pc = "request"
    /\ Running("groups", p)
    /\ calls' = [calls EXCEPT ![p] =
           IF calls[p].id \in DOMAIN groups
           THEN Resolve(@, 0, Get(groups, calls[p].id))
           ELSE Reject(@, GroupNotFound, FALSE)]
    /\ Finish("groups")
    /\ UNCHANGED <<store, clock>>
    /\ UNCHANGED <<ncalls, opening, opens, provider>>

\* request.onsuccess of store.get(id): resolve(request.result || null).
\* The result is <<record>>, or << >> for null.
getGroup_onsuccess(p) ==
    /\ calls[p].op = "getGroup" /\ calls[p].pc = "request"
    /\ Running("groups", p)
    /\ calls' = [calls EXCEPT ![p] = Resolve(@, 0, Get(groups, calls[p].id))]
    /\ Finish("groups")
    /\ UNCHANGED <<store, clock>>
    /\ UNCHANGED <<ncalls, opening, opens, provider>>

\* ------------------------------------------------------------ renameGroup
renameGroup(p) ==
    \E groupId \in GroupIds : \E newName \in Names :
        Call(p, "renameGroup", groupId, newName, "")

renameGroup_executor(p) ==
    /\ calls[p].op = "renameGroup" /\ calls[p].pc = "openDB"
    /\ Opened(p)
    /\ calls' = [calls EXCEPT ![p].pc = "get"]
    /\ txq' = Transaction("groups", p)
    /\ UNCHANGED <<store, undo, clock>>
    /\ UNCHANGED <<ncalls, opens, provider>>

\* Mutant of renameGroup_getRequest_onsuccess: the record put is built anew,
\* createdAt included, instead of changing the one read.
renameGroup_getRequest_onsuccess_rebuild(p) ==
    /\ calls[p].op = "renameGroup" /\ calls[p].pc = "get"
    /\ Running("groups", p)
    /\ LET group == Get(groups, calls[p].id) IN
         IF group = << >>
         THEN /\ calls' = [calls EXCEPT ![p] = Reject(@, GroupNotFound, FALSE)]
              /\ Finish("groups")
              /\ UNCHANGED clock
         ELSE \E updatedAt \in Now(clock) :
              /\ calls' = [calls EXCEPT ![p].pc = "put",
                     ![p].rec = <<[id |-> calls[p].id, name |-> calls[p].name,
                                   createdAt |-> updatedAt, updatedAt |-> updatedAt]>>]
              /\ clock' = updatedAt
              /\ KeepActive("groups")
    /\ UNCHANGED store
    /\ UNCHANGED <<ncalls, opening, opens, provider>>

\* Mutant of renameGroup_getRequest_onsuccess: no check for a missing group,
\* a record with the id is put (an upsert).
renameGroup_getRequest_onsuccess_upsert(p) ==
    /\ calls[p].op = "renameGroup" /\ calls[p].pc = "get"
    /\ Running("groups", p)
    /\ \E updatedAt \in Now(clock) :
         /\ calls' = [calls EXCEPT ![p].pc = "put",
                ![p].rec = <<[id |-> calls[p].id, name |-> calls[p].name,
                              createdAt |-> IF calls[p].id \in DOMAIN groups
                                            THEN groups[calls[p].id].createdAt
                                            ELSE updatedAt,
                              updatedAt |-> updatedAt]>>]
         /\ clock' = updatedAt
    /\ KeepActive("groups")
    /\ UNCHANGED store
    /\ UNCHANGED <<ncalls, opening, opens, provider>>

\* getRequest.onsuccess: reject when the group is missing, else set the name
\* and updatedAt on the record read and store.put it.
renameGroup_getRequest_onsuccess(p) ==
    /\ calls[p].op = "renameGroup" /\ calls[p].pc = "get"
    /\ Running("groups", p)
    /\ LET group == Get(groups, calls[p].id) IN
         IF group = << >>
         THEN /\ calls' = [calls EXCEPT ![p] = Reject(@, GroupNotFound, FALSE)]
              /\ Finish("groups")
              /\ UNCHANGED clock
         ELSE \E updatedAt \in Now(clock) :
              /\ calls' = [calls EXCEPT ![p].pc = "put",
                     ![p].rec = <<[group[1] EXCEPT !.name = calls[p].name,
                                                   !.updatedAt = updatedAt]>>]
              /\ clock' = updatedAt
              /\ KeepActive("groups")
    /\ UNCHANGED store
    /\ UNCHANGED <<ncalls, opening, opens, provider>>

\* Mutant of renameGroup_updateRequest_onsuccess: the put stores the new name
\* but leaves the stored updatedAt as it was.
renameGroup_updateRequest_onsuccess_half(p) ==
    /\ calls[p].op = "renameGroup" /\ calls[p].pc = "put"
    /\ Running("groups", p)
    /\ store' = [store EXCEPT !["groups"].recs =
           With(@, calls[p].rec[1].id,
                [calls[p].rec[1] EXCEPT !.updatedAt = groups[calls[p].id].updatedAt])]
    /\ calls' = [calls EXCEPT ![p] = Resolve(@, 0, << >>)]
    /\ Finish("groups")
    /\ UNCHANGED clock
    /\ UNCHANGED <<ncalls, opening, opens, provider>>

\* updateRequest.onsuccess of store.put(group): resolve().
renameGroup_updateRequest_onsuccess(p) ==
    /\ calls[p].op = "renameGroup" /\ calls[p].pc = "put"
    /\ Running("groups", p)
    /\ store' = [store EXCEPT !["groups"].recs =
           With(@, calls[p].rec[1].id, calls[p].rec[1])]
    /\ calls' = [calls EXCEPT ![p] = Resolve(@, 0, << >>)]
    /\ Finish("groups")
    /\ UNCHANGED clock
    /\ UNCHANGED <<ncalls, opening, opens, provider>>

\* ------------------------------------------------------------ deleteGroup
deleteGroup(p) == \E groupId \in GroupIds : Call(p, "deleteGroup", groupId, "", "")

\* deleteGroup's own database opened: it calls deleteImagesByGroup, which
\* opens the database again.
deleteGroup_opened(p) ==
    /\ calls[p].op = "deleteGroup" /\ calls[p].pc = "openDB"
    /\ calls' = [calls EXCEPT ![p].pc = "openDB2"]
    /\ opening # << >> /\ Head(opening) = p
    /\ opening' = Append(Tail(opening), p)
    /\ opens' = opens + 1
    /\ UNCHANGED provider
    /\ UNCHANGED <<store, txq, undo, clock, ncalls>>

\* deleteImagesByGroup: transaction on 'images' and index.openCursor(groupId).
deleteImagesByGroup_executor(p) ==
    /\ calls[p].op = "deleteGroup" /\ calls[p].pc = "openDB2"
    /\ Opened(p)
    /\ calls' = [calls EXCEPT ![p].pc = "cursor"]
    /\ txq' = Transaction("images", p)
    /\ UNCHANGED <<store, undo, clock>>
    /\ UNCHANGED <<ncalls, opens, provider>>

\* Mutant of deleteImagesByGroup_onsuccess: cursor.continue() without
\* cursor.delete(): the cursor runs to its end and nothing is removed.
deleteImagesByGroup_onsuccess_skip(p) ==
    /\ calls[p].op = "deleteGroup" /\ calls[p].pc = "cursor"
    /\ Running("images", p)
    /\ calls' = [calls EXCEPT ![p].pc = "request"]
    /\ txq' = [Transaction("groups", p) EXCEPT !["images"][1].state = "finished"]
    /\ undo' = [undo EXCEPT !["images"] = Snapshot("images")]
    /\ UNCHANGED <<store, clock>>
    /\ UNCHANGED <<ncalls, opening, opens, provider>>

\* request.onsuccess of the cursor request.  With a cursor: cursor.delete()
\* removes the image under it and cursor.continue() moves on.  With none:
\* resolve(), and deleteGroup goes on to its transaction on 'groups' and
\* store.delete(groupId).
deleteImagesByGroup_onsuccess(p) ==
    /\ calls[p].op = "deleteGroup" /\ calls[p].pc = "cursor"
    /\ Running("images", p)
    /\ LET matching == IndexGroupId(images, calls[p].id) IN
         IF matching # {}
         THEN /\ store' = [store EXCEPT !["images"].recs = Without(@, Min(matching))]
              /\ txq' = [txq EXCEPT !["images"][1].state = "active"]
              /\ UNCHANGED calls
         ELSE /\ calls' = [calls EXCEPT ![p].pc = "request"]
              /\ txq' = [Transaction("groups", p) EXCEPT !["images"][1].state = "finished"]
              /\ UNCHANGED store
    /\ undo' = [undo EXCEPT !["images"] = Snapshot("images")]
    /\ UNCHANGED clock
    /\ UNCHANGED <<ncalls, opening, opens, provider>>

\* Mutant of deleteGroup_onsuccess: store.clear() in place of
\* store.delete(groupId).
deleteGroup_onsuccess_clear(p) ==
    /\ calls[p].op = "deleteGroup" /\ calls[p].pc = "request"
    /\ Running("groups", p)
    /\ store' = [store EXCEPT !["groups"].recs = NoRecs]
    /\ calls' = [calls EXCEPT ![p] = Resolve(@, 0, << >>)]
    /\ Finish("groups")
    /\ UNCHANGED clock
    /\ UNCHANGED <<ncalls, opening, opens, provider>>

\* request.onsuccess of store.delete(groupId): resolve().
deleteGroup_onsuccess(p) ==
    /\ calls[p].op = "deleteGroup" /\ calls[p].pc = "request"
    /\ Running("groups", p)
    /\ store' = [store EXCEPT !["groups"].recs = Without(@, calls[p].id)]
    /\ calls' = [calls EXCEPT ![p] = Resolve(@, 0, << >>)]
    /\ Finish("groups")
    /\ UNCHANGED clock
    /\ UNCHANGED <<ncalls, opening, opens, provider>>


\* --------------------------------------------------------------- addImage
\* addImage(groupId, name, blob), up to `await openDB()`; groupId is any id.
addImage(p) ==
    /\ store["images"].key
         + Cardinality({q \in Callers : calls[q].op = "addImage" /\ InFlight(calls[q])})
         < MaxImages
    /\ \E groupId \in GroupIds : \E name \in Names : \E blob \in Blobs :
         Call(p, "addImage", groupId, name, blob)

addImage_executor(p) ==
    /\ calls[p].op = "addImage" /\ calls[p].pc = "openDB"
    /\ Opened(p)
    /\ \E createdAt \in Now(clock) :
         /\ calls' = [calls EXCEPT ![p].pc = "request",
                ![p].rec = <<[groupId |-> calls[p].id, name |-> calls[p].name,
                              blob |-> calls[p].blob, createdAt |-> createdAt]>>]
         /\ clock' = createdAt
    /\ txq' = Transaction("images", p)
    /\ UNCHANGED <<store, undo>>
    /\ UNCHANGED <<ncalls, opens, provider>>

ImageRecord(input, id) ==
    [id |-> id, groupId |-> input.groupId, name |-> input.name,
     blob |-> input.blob, createdAt |-> input.createdAt]

\* Mutant of addImage_onsuccess: the key is the smallest id not in use, so an
\* id freed by a delete is handed out again.
addImage_onsuccess_reuse(p) ==
    /\ calls[p].op = "addImage" /\ calls[p].pc = "request"
    /\ Running("images", p)
    /\ LET id == Min({k \in 1..(store["images"].key + 1) : k \notin DOMAIN images}) IN
         /\ store' = [store EXCEPT !["images"] =
                [recs |-> With(@.recs, id, ImageRecord(calls[p].rec[1], id)),
                 key |-> IF id > @.key THEN id ELSE @.key]]
         /\ calls' = [calls EXCEPT ![p] = Resolve(@, id, << >>)]
    /\ Finish("images")
    /\ UNCHANGED clock
    /\ UNCHANGED <<ncalls, opening, opens, provider>>

\* Mutant of addImage_onsuccess: the group is looked up first and the call
\* rejects when there is none.
addImage_onsuccess_validate(p) ==
    /\ calls[p].op = "addImage" /\ calls[p].pc = "request"
    /\ Running("images", p)
    /\ LET id == store["images"].key + 1 IN
         IF calls[p].id \in DOMAIN groups
         THEN /\ store' = [store EXCEPT !["images"] =
                     [recs |-> With(@.recs, id, ImageRecord(calls[p].rec[1], id)),
                      key |-> id]]
              /\ calls' = [calls EXCEPT ![p] = Resolve(@, id, << >>)]
         ELSE /\ calls' = [calls EXCEPT ![p] = Reject(@, GroupNotFound, FALSE)]
              /\ UNCHANGED store
    /\ Finish("images")
    /\ UNCHANGED clock
    /\ UNCHANGED <<ncalls, opening, opens, provider>>

\* request.onsuccess of store.add(image): resolve(request.result).
addImage_onsuccess(p) ==
    /\ calls[p].op = "addImage" /\ calls[p].pc = "request"
    /\ Running("images", p)
    /\ LET id == store["images"].key + 1 IN
         /\ store' = [store EXCEPT !["images"] =
                [recs |-> With(@.recs, id, ImageRecord(calls[p].rec[1], id)),
                 key |-> id]]
         /\ calls' = [calls EXCEPT ![p] = Resolve(@, id, << >>)]
    /\ Finish("images")
    /\ UNCHANGED clock
    /\ UNCHANGED <<ncalls, opening, opens, provider>>

\* ------------------------------------------------------- getImagesByGroup
getImagesByGroup(p) == \E groupId \in GroupIds : Call(p, "getImagesByGroup", groupId, "", "")

getImagesByGroup_executor(p) ==
    /\ calls[p].op = "getImagesByGroup" /\ calls[p].pc = "openDB"
    /\ Opened(p)
    /\ calls' = [calls EXCEPT ![p].pc = "request"]
    /\ txq' = Transaction("images", p)
    /\ UNCHANGED <<store, undo, clock>>
    /\ UNCHANGED <<ncalls, opens, provider>>

\* Mutant of getImagesByGroup_onsuccess: the answer comes from a cache that
\* was filled while the store was empty.
getImagesByGroup_onsuccess_cached(p) ==
    /\ calls[p].op = "getImagesByGroup" /\ calls[p].pc = "request"
    /\ Running("images", p)
    /\ calls' = [calls EXCEPT ![p] = Resolve(@, 0, << >>)]
    /\ Finish("images")
    /\ UNCHANGED <<store, clock>>
    /\ UNCHANGED <<ncalls, opening, opens, provider>>

\* request.onsuccess of index.getAll(groupId): resolve(request.result).
getImagesByGroup_onsuccess(p) ==
    /\ calls[p].op = "getImagesByGroup" /\ calls[p].pc = "request"
    /\ Running("images", p)
    /\ calls' = [calls EXCEPT ![p] =
           Resolve(@, 0, Ascending(images, IndexGroupId(images, calls[p].id)))]
    /\ Finish("images")
    /\ UNCHANGED <<store, clock>>
    /\ UNCHANGED <<ncalls, opening, opens, provider>>

\* ------------------------------------------------------------ renameImage
renameImage(p) ==
    \E imageId \in ImageIds : \E newName \in Names :
        Call(p, "renameImage", imageId, newName, "")

renameImage_executor(p) ==
    /\ calls[p].op = "renameImage" /\ calls[p].pc = "openDB"
    /\ Opened(p)
    /\ calls' = [calls EXCEPT ![p].pc = "get"]
    /\ txq' = Transaction("images", p)
    /\ UNCHANGED <<store, undo, clock>>
    /\ UNCHANGED <<ncalls, opens, provider>>

\* Mutant of renameImage_getRequest_onsuccess: the record put carries the new
\* name but not the blob.
renameImage_getRequest_onsuccess_noBlob(p) ==
    /\ calls[p].op = "renameImage" /\ calls[p].pc = "get"
    /\ Running("images", p)
    /\ LET image == Get(images, calls[p].id) IN
         IF image = << >>
         THEN /\ calls' = [calls EXCEPT ![p] = Reject(@, ImageNotFound, FALSE)]
              /\ Finish("images")
         ELSE /\ calls' = [calls EXCEPT ![p].pc = "put",
                     ![p].rec = <<[image[1] EXCEPT !.name = calls[p].name,
                                                   !.blob = ""]>>]
              /\ KeepActive("images")
    /\ UNCHANGED <<store, clock>>
    /\ UNCHANGED <<ncalls, opening, opens, provider>>

\* Mutant of renameImage_getRequest_onsuccess: no check for a missing image,
\* a record with the id is put (an upsert).
renameImage_getRequest_onsuccess_upsert(p) ==
    /\ calls[p].op = "renameImage" /\ calls[p].pc = "get"
    /\ Running("images", p)
    /\ calls' = [calls EXCEPT ![p].pc = "put",
           ![p].rec = <<IF calls[p].id \in DOMAIN images
                        THEN [images[calls[p].id] EXCEPT !.name = calls[p].name]
                        ELSE [id |-> calls[p].id, groupId |-> 1,
                              name |-> calls[p].name, blob |-> "",
                              createdAt |-> clock]>>]
    /\ KeepActive("images")
    /\ UNCHANGED <<store, clock>>
    /\ UNCHANGED <<ncalls, opening, opens, provider>>

\* getRequest.onsuccess: reject when the image is missing, else set the name
\* on the record read and store.put it.
renameImage_getRequest_onsuccess(p) ==
    /\ calls[p].op = "renameImage" /\ calls[p].pc = "get"
    /\ Running("images", p)
    /\ LET image == Get(images, calls[p].id) IN
         IF image = << >>
         THEN /\ calls' = [calls EXCEPT ![p] = Reject(@, ImageNotFound, FALSE)]
              /\ Finish("images")
         ELSE /\ calls' = [calls EXCEPT ![p].pc = "put",
                     ![p].rec = <<[image[1] EXCEPT !.name = calls[p].name]>>]
              /\ KeepActive("images")
    /\ UNCHANGED <<store, clock>>
    /\ UNCHANGED <<ncalls, opening, opens, provider>>

\* updateRequest.onsuccess of store.put(image): resolve().
renameImage_updateRequest_onsuccess(p) ==
    /\ calls[p].op = "renameImage" /\ calls[p].pc = "put"
    /\ Running("images", p)
    /\ store' = [store EXCEPT !["images"].recs =
           With(@, calls[p].rec[1].id, calls[p].rec[1])]
    /\ calls' = [calls EXCEPT ![p] = Resolve(@, 0, << >>)]
    /\ Finish("images")
    /\ UNCHANGED clock
    /\ UNCHANGED <<ncalls, opening, opens, provider>>

\* ------------------------------------------------------------ deleteImage
deleteImage(p) == \E imageId \in ImageIds : Call(p, "deleteImage", imageId, "", "")

deleteImage_executor(p) ==
    /\ calls[p].op = "deleteImage" /\ calls[p].pc = "openDB"
    /\ Opened(p)
    /\ calls' = [calls EXCEPT ![p].pc = "request"]
    /\ txq' = Transaction("images", p)
    /\ UNCHANGED <<store, undo, clock>>
    /\ UNCHANGED <<ncalls, opens, provider>>

\* Mutant of deleteImage_onsuccess: deleting a missing image is an error.
deleteImage_onsuccess_strict(p) ==
    /\ calls[p].op = "deleteImage" /\ calls[p].pc = "request"
    /\ Running("images", p)
    /\ store' = [store EXCEPT !["images"].recs = Without(@, calls[p].id)]
    /\ calls' = [calls EXCEPT ![p] =
           IF calls[p].id \in DOMAIN images
           THEN Resolve(@, 0, << >>)
           ELSE Reject(@, ImageNotFound, FALSE)]
    /\ Finish("images")
    /\ UNCHANGED clock
    /\ UNCHANGED <<ncalls, opening, opens, provider>>

\* request.onsuccess of store.delete(imageId): resolve().
deleteImage_onsuccess(p) ==
    /\ calls[p].op = "deleteImage" /\ calls[p].pc = "request"
    /\ Running("images", p)
    /\ store' = [store EXCEPT !["images"].recs = Without(@, calls[p].id)]
    /\ calls' = [calls EXCEPT ![p] = Resolve(@, 0, << >>)]
    /\ Finish("images")
    /\ UNCHANGED clock
    /\ UNCHANGED <<ncalls, opening, opens, provider>>

\* ---------------------------------------------------------- specification
\* A call by caller p.
Invoke(p) ==
    \/ createGroup(p) \/ getAllGroups(p) \/ getGroup(p) \/ renameGroup(p)
    \/ deleteGroup(p) \/ addImage(p) \/ getImagesByGroup(p) \/ renameImage(p)
    \/ deleteImage(p)

\* An event delivered to caller p's call in flight.
Handle(p) ==
    \/ openDB_onerror(p) \/ request_onerror(p)
    \/ createGroup_executor(p) \/ createGroup_onsuccess(p)
    \/ getAllGroups_executor(p) \/ getAllGroups_onsuccess(p)
    \/ getGroup_executor(p) \/ getGroup_onsuccess(p)
    \/ renameGroup_executor(p) \/ renameGroup_getRequest_onsuccess(p)
    \/ renameGroup_updateRequest_onsuccess(p)
    \/ deleteGroup_opened(p) \/ deleteImagesByGroup_executor(p)
    \/ deleteImagesByGroup_onsuccess(p) \/ deleteGroup_onsuccess(p)
    \/ addImage_executor(p) \/ addImage_onsuccess(p)
    \/ getImagesByGroup_executor(p) \/ getImagesByGroup_onsuccess(p)
    \/ renameImage_executor(p) \/ renameImage_getRequest_onsuccess(p)
    \/ renameImage_updateRequest_onsuccess(p)
    \/ deleteImage_executor(p) \/ deleteImage_onsuccess(p)
    \/ Return(p)

\* Callers call whenever they are idle: calls overlap.
Next ==
    \/ \E p \in Callers : Invoke(p)
    \/ \E p \in Callers : Handle(p)
    \/ \E s \in Stores : oncomplete(s)

Spec == Init /\ [][Next]_vars

\* One call at a time: a call is made only when no promise is outstanding.
NextSeq ==
    \/ \E p \in Callers : (\A q \in Callers : calls[q].pc = "idle") /\ Invoke(p)
    \/ \E p \in Callers : Handle(p)
    \/ \E s \in Stores : oncomplete(s)

SpecSeq == Init /\ [][NextSeq]_vars


\* addImage called only with the id of a group that exists at call time.
addImage_existing(p) == addImage(p) /\ calls'[p].id \in DOMAIN groups

\* Overlapping calls, every addImage naming a group that exists when called.
NextValid ==
    \/ \E p \in Callers :
         \/ createGroup(p) \/ getAllGroups(p) \/ getGroup(p) \/ renameGroup(p)
         \/ deleteGroup(p) \/ addImage_existing(p) \/ getImagesByGroup(p)
         \/ renameImage(p) \/ deleteImage(p)
    \/ \E p \in Callers : Handle(p)
    \/ \E s \in Stores : oncomplete(s)

SpecValid == Init /\ [][NextValid]_vars

\* Overlapping calls where a transaction may also fail to commit.
NextCommit ==
    \/ Next
    \/ \E s \in Stores : transaction_onabort(s)

SpecCommit == Init /\ [][NextCommit]_vars

\* An event the engine delivers to caller p's call: one of Handle, or blocked.
Deliver(p) == Handle(p) \/ openDB_onblocked(p)

\* Overlapping calls where an open request may also be answered by blocked.
NextLive ==
    \/ \E p \in Callers : Invoke(p)
    \/ \E p \in Callers : Deliver(p)
    \/ \E s \in Stores : oncomplete(s)

\* The engine answers every pending open request and transaction request and
\* commits every transaction that has finished.
Fairness ==
    /\ \A p \in Callers : WF_vars(Deliver(p))
    /\ \A s \in Stores : WF_vars(oncomplete(s))

SpecLive == Init /\ [][NextLive]_vars /\ Fairness

\* Overlapping calls where an executor may also throw.
NextThrow ==
    \/ Next
    \/ \E p \in Callers : executor_throw(p)

SpecThrow == Init /\ [][NextThrow]_vars

\* The contents an object store may have been left with by an earlier
\* session: empty, or one record under id 1.
GroupStores ==
    {NoStore} \cup
    {[recs |-> <<GroupRecord([name |-> n, createdAt |-> c, updatedAt |-> u], 1)>>,
      key |-> k] :
        n \in Names, c \in 0..MaxClock, u \in 0..MaxClock, k \in GroupIds}
ImageStores ==
    {NoStore} \cup
    {[recs |-> <<ImageRecord([groupId |-> g, name |-> n, blob |-> b,
                              createdAt |-> c], 1)>>,
      key |-> k] :
        g \in GroupIds, n \in Names, b \in Blobs, c \in 0..MaxClock, k \in ImageIds}

\* The databases an open request may find: none, some or all of the object
\* stores present, each with its contents.
Databases ==
    UNION {[S -> GroupStores \cup ImageStores] : S \in SUBSET Stores}

InitUpgrade ==
    /\ store \in {db \in Databases :
                    /\ "groups" \in DOMAIN db => db["groups"] \in GroupStores
                    /\ "images" \in DOMAIN db => db["images"] \in ImageStores}
    /\ txq = [s \in Stores |-> << >>]
    /\ undo = [s \in Stores |-> NoUndo]
    /\ calls = [p \in Callers |-> Idle]
    /\ clock = 0
    /\ ncalls = 0
    /\ opening = << >>
    /\ opens = 0
    /\ provider = Mounted

\* The database is opened, and its upgrade step run, again and again.
NextUpgrade == openDB_onupgradeneeded

SpecUpgrade == InitUpgrade /\ [][NextUpgrade]_vars

\* ------------------------------------------------- ImageGalleryProvider
\* The provider's handlers call the service and await it; each awaited
\* service call is one step here, taken when its transaction runs.

\* What the awaited service calls leave in the database db, or answer.
await_createGroup(db, name, now) ==
    LET id == db["groups"].key + 1 IN
        [db EXCEPT !["groups"] =
            [recs |-> With(db["groups"].recs, id,
                           GroupRecord([name |-> name, createdAt |-> now,
                                        updatedAt |-> now], id)),
             key |-> id]]

await_deleteGroup(db, groupId) ==
    [db EXCEPT !["groups"].recs = Without(db["groups"].recs, groupId),
               !["images"].recs =
                   [i \in DOMAIN db["images"].recs
                          \ IndexGroupId(db["images"].recs, groupId)
                      |-> db["images"].recs[i]]]

await_addImage(db, groupId, name, blob, now) ==
    LET id == db["images"].key + 1 IN
        [db EXCEPT !["images"] =
            [recs |-> With(db["images"].recs, id,
                           ImageRecord([groupId |-> groupId, name |-> name,
                                        blob |-> blob, createdAt |-> now], id)),
             key |-> id]]

await_renameImage(db, imageId, newName) ==
    [db EXCEPT !["images"].recs[imageId].name = newName]

await_deleteImage(db, imageId) ==
    [db EXCEPT !["images"].recs = Without(db["images"].recs, imageId)]

await_getImagesByGroup(db, groupId) ==
    Ascending(db["images"].recs, IndexGroupId(db["images"].recs, groupId))

\* setSelectedGroupId(groupId) and, when the value changes, the effect on
\* [selectedGroupId]: loadImages(groupId) is started, or setImages([]) for null.
setSelectedGroupId(pr, groupId) ==
    IF groupId = pr.selectedGroupId THEN pr
    ELSE IF groupId = Null
         THEN [pr EXCEPT !.selectedGroupId = Null, !.images = << >>]
         ELSE [pr EXCEPT !.selectedGroupId = groupId,
                         !.loading[groupId] = @ + 1]

\* A call on the provider is made.
Event ==
    /\ ncalls < MaxEvents
    /\ ncalls' = ncalls + 1
    /\ UNCHANGED <<txq, undo, calls, clock, opening, opens>>

\* A step of a handler in flight.
Continue == UNCHANGED <<txq, undo, calls, clock, ncalls, opening, opens>>

\* Handler slot p takes a call of fn, closing over the selectedGroupId of
\* the render it was made in.
Enter(p, fn, id, name) ==
    /\ provider.running[p].pc = "idle"
    /\ provider' = [provider EXCEPT !.running[p] =
           [fn |-> fn, id |-> id, name |-> name,
            selectedGroupId |-> provider.selectedGroupId, pc |-> "await"]]
    /\ Event
    /\ UNCHANGED store

\* selectGroup(groupId), for null or a group that is stored.
selectGroup(groupId) ==
    /\ groupId = Null \/ groupId \in DOMAIN groups
    /\ provider' = setSelectedGroupId(provider, groupId)
    /\ Event
    /\ UNCHANGED store

\* The getImagesByGroup of a loadImages(groupId) started by the effect
\* answers: setImages(groupImages).
loadImages_effect(groupId) ==
    /\ provider.loading[groupId] > 0
    /\ provider' = [provider EXCEPT
           !.loading[groupId] = @ - 1,
           !.images = await_getImagesByGroup(store, groupId)]
    /\ Continue
    /\ UNCHANGED store

\* createNewGroup(name), up to `await createGroup(name)`.
createNewGroup(p) ==
    /\ store["groups"].key
         + Cardinality({q \in Callers :
               /\ provider.running[q].fn = "createNewGroup"
               /\ provider.running[q].pc = "await"})
         < MaxGroups
    /\ \E name \in Names : Enter(p, "createNewGroup", 0, name)

\* createGroup answered with the new id: `await loadGroups()`.
createNewGroup_created(p) ==
    /\ provider.running[p].fn = "createNewGroup"
    /\ provider.running[p].pc = "await"
    /\ store' = await_createGroup(store, provider.running[p].name, clock)
    /\ provider' = [provider EXCEPT !.running[p].pc = "loadGroups",
                                     !.running[p].id = store["groups"].key + 1]
    /\ Continue

\* loadGroups returned: setSelectedGroupId(newGroupId).
createNewGroup_loaded(p) ==
    /\ provider.running[p].fn = "createNewGroup"
    /\ provider.running[p].pc = "loadGroups"
    /\ provider' = [setSelectedGroupId(provider, provider.running[p].id)
                       EXCEPT !.running[p] = NoHandler]
    /\ Continue
    /\ UNCHANGED store

\* deleteExistingGroup(groupId) on a stored group, up to `await deleteGroup`.
deleteExistingGroup(p) ==
    \E groupId \in DOMAIN groups : Enter(p, "deleteExistingGroup", groupId, "")

\* deleteGroup resolved: `await loadGroups()`.
deleteExistingGroup_deleted(p) ==
    /\ provider.running[p].fn = "deleteExistingGroup"
    /\ provider.running[p].pc = "await"
    /\ store' = await_deleteGroup(store, provider.running[p].id)
    /\ provider' = [provider EXCEPT !.running[p].pc = "loadGroups"]
    /\ Continue

\* loadGroups returned: if (selectedGroupId === groupId) with the
\* selectedGroupId the handler closed over, setSelectedGroupId(null).
deleteExistingGroup_loaded(p) ==
    /\ provider.running[p].fn = "deleteExistingGroup"
    /\ provider.running[p].pc = "loadGroups"
    /\ provider' =
         [(IF provider.running[p].selectedGroupId = provider.running[p].id
           THEN setSelectedGroupId(provider, Null) ELSE provider)
             EXCEPT !.running[p] = NoHandler]
    /\ Continue
    /\ UNCHANGED store

\* addImageToGroup(groupId, name, blob) as the gallery calls it, with the
\* selected group, up to `await addImage`.
addImageToGroup(p) ==
    /\ provider.selectedGroupId # Null
    /\ store["images"].key
         + Cardinality({q \in Callers :
               /\ provider.running[q].fn = "addImageToGroup"
               /\ provider.running[q].pc = "await"})
         < MaxImages
    /\ \E name \in Names :
         Enter(p, "addImageToGroup", provider.selectedGroupId, name)

\* addImage resolved: `await loadImages(groupId)`.
addImageToGroup_added(p) ==
    /\ provider.running[p].fn = "addImageToGroup"
    /\ provider.running[p].pc = "await"
    /\ \E blob \in Blobs :
         store' = await_addImage(store, provider.running[p].id,
                                 provider.running[p].name, blob, clock)
    /\ provider' = [provider EXCEPT !.running[p].pc = "loadImages"]
    /\ Continue

\* renameExistingImage(imageId, newName) on an image of the list shown.
renameExistingImage(p) ==
    \E k \in 1..Len(provider.images) : \E newName \in Names :
        Enter(p, "renameExistingImage", provider.images[k].id, newName)

\* deleteExistingImage(imageId) on an image of the list shown.
deleteExistingImage(p) ==
    \E k \in 1..Len(provider.images) :
        Enter(p, "deleteExistingImage", provider.images[k].id, "")

\* renameImage / deleteImage settled.  Rejected (renameImage of an image no
\* longer stored): the catch block ends the handler.  Resolved: `await
\* loadImages(selectedGroupId)` with the selectedGroupId closed over, unless
\* that is null.
ExistingImage_settled(p) ==
    /\ provider.running[p].fn \in {"renameExistingImage", "deleteExistingImage"}
    /\ provider.running[p].pc = "await"
    /\ LET h == provider.running[p] IN
         IF h.fn = "renameExistingImage" /\ h.id \notin DOMAIN images
         THEN /\ provider' = [provider EXCEPT !.running[p] = NoHandler]
              /\ UNCHANGED store
         ELSE /\ store' = IF h.fn = "renameExistingImage"
                          THEN await_renameImage(store, h.id, h.name)
                          ELSE await_deleteImage(store, h.id)
              /\ provider' = [provider EXCEPT !.running[p] =
                     IF h.selectedGroupId = Null THEN NoHandler
                     ELSE [h EXCEPT !.pc = "loadImages"]]
    /\ Continue

\* The group whose images the loadImages call of handler h asked for.
LoadedGroup(h) == IF h.fn = "addImageToGroup" THEN h.id ELSE h.selectedGroupId

\* The getImagesByGroup of a handler's loadImages answers:
\* setImages(groupImages), and the handler returns.
loadImages(p) ==
    /\ provider.running[p].pc = "loadImages"
    /\ provider' = [provider EXCEPT
           !.images = await_getImagesByGroup(store, LoadedGroup(provider.running[p])),
           !.running[p] = NoHandler]
    /\ Continue
    /\ UNCHANGED store

\* Calls on the provider overlap; the service under it answers without
\* failure.
NextProvider ==
    \/ \E groupId \in GroupIds \cup {Null} : selectGroup(groupId)
    \/ \E groupId \in GroupIds : loadImages_effect(groupId)
    \/ \E p \in Callers :
         \/ createNewGroup(p) \/ createNewGroup_created(p)
         \/ createNewGroup_loaded(p)
         \/ deleteExistingGroup(p) \/ deleteExistingGroup_deleted(p)
         \/ deleteExistingGroup_loaded(p)
         \/ addImageToGroup(p) \/ addImageToGroup_added(p)
         \/ renameExistingImage(p) \/ deleteExistingImage(p)
         \/ ExistingImage_settled(p)
         \/ loadImages(p)

SpecProvider == Init /\ [][NextProvider]_vars

\* ------------------------------------------------------------------ claims
Settled(p, op) == calls[p].op = op /\ calls[p].pc = "settled"
Resolved(p, op) == Settled(p, op) /\ calls[p].outcome = "resolved"

\* Caller p's transaction on s has run its last request and not yet committed:
\* undo[s] is store s as the transaction found it.
Fresh(s, p) ==
    /\ Len(txq[s]) > 0
    /\ txq[s][1].owner = p
    /\ txq[s][1].state = "finished"

\* Caller p's call moves in this step.
Step(p) == calls'[p] # calls[p]

Records(f) == {f[k] : k \in DOMAIN f}
Elements(seq) == {seq[k] : k \in 1..Len(seq)}

\* C1: once deleteGroup(G) has resolved, no image with groupId G and no group
\* record G is in the store (calls made one at a time).
C1_CascadeComplete ==
    \A p \in Callers : Resolved(p, "deleteGroup") =>
        /\ \A i \in DOMAIN images : images[i].groupId # calls[p].id
        /\ calls[p].id \notin DOMAIN groups

\* C1 witness: a resolved deleteGroup(G) that found group G with an image.
C1_Witness ==
    \E p \in Callers :
        /\ Resolved(p, "deleteGroup")
        /\ Fresh("groups", p) /\ Fresh("images", p)
        /\ calls[p].id \in DOMAIN undo["groups"].recs
        /\ \E i \in DOMAIN undo["images"].recs :
               undo["images"].recs[i].groupId = calls[p].id

\* A cascade delete of group g is in progress.
Cascading(g) ==
    \E p \in Callers :
        calls[p].op = "deleteGroup" /\ calls[p].id = g /\ InFlight(calls[p])

\* C2: every stored image's groupId is the id of an existing group, except
\* while a cascade delete of that group is in progress (under SpecValid:
\* overlapping calls, addImage only with a group that exists when called).
C2_ReferentialIntegrity ==
    \A i \in DOMAIN images :
        images[i].groupId \in DOMAIN groups \/ Cascading(images[i].groupId)

\* C3: deleteGroup issues the group-row delete only from the cursor's end,
\* with no image of G left in the index; a failure in the image phase settles
\* the call rejected with no group transaction opened and 'groups' untouched;
\* and only the request so issued removes a group row.
C3_CascadeOrdering ==
    [][/\ \A p \in Callers : calls[p].op = "deleteGroup" =>
            /\ (calls'[p].pc = "request" /\ calls[p].pc # "request") =>
                   /\ calls[p].pc = "cursor"
                   /\ IndexGroupId(images, calls[p].id) = {}
                   /\ images' = images
            /\ (calls[p].pc \in {"openDB", "openDB2", "cursor"}
                  /\ calls'[p].pc = "settled") =>
                   /\ calls'[p].outcome = "rejected"
                   /\ groups' = groups
                   /\ \A k \in 1..Len(txq'["groups"]) :
                          txq'["groups"][k].owner = p =>
                              txq'["groups"][k].state = "finished"
       /\ \A g \in DOMAIN groups : g \notin DOMAIN groups' =>
            \E p \in Callers :
                /\ calls[p].op = "deleteGroup" /\ calls[p].id = g
                /\ calls[p].pc = "request" /\ calls'[p].outcome = "resolved"
      ]_vars

\* C3 witness: a deleteGroup(G) whose image phase failed: rejected, group G
\* and its images still stored.
C3_Witness ==
    \E p \in Callers :
        /\ Settled(p, "deleteGroup")
        /\ calls[p].outcome = "rejected"
        /\ calls[p].err = "Failed to delete images"
        /\ calls[p].id \in DOMAIN groups
        /\ IndexGroupId(images, calls[p].id) # {}
        /\ \A q \in Callers \ {p} : calls[q].pc = "idle"


\* C4: getImagesByGroup(G) resolves with exactly the stored images whose
\* groupId is G, each once (the empty sequence when there is none or G does
\* not exist), and rejects only on an engine failure (calls one at a time).
C4_IndexCorrect ==
    \A p \in Callers : Settled(p, "getImagesByGroup") =>
        /\ calls[p].outcome = "rejected" => calls[p].fault
        /\ calls[p].outcome = "resolved" =>
             /\ Elements(calls[p].result)
                  = {r \in Records(images) : r.groupId = calls[p].id}
             /\ \A j, k \in 1..Len(calls[p].result) :
                    calls[p].result[j] = calls[p].result[k] => j = k

\* C4 witness: a resolved getImagesByGroup(G) that returned an image of G
\* while an image of another group is stored.
C4_Witness ==
    \E p \in Callers :
        /\ Resolved(p, "getImagesByGroup")
        /\ Len(calls[p].result) = 1
        /\ \E i \in DOMAIN images : images[i].groupId # calls[p].id

\* C5: the step in which renameGroup(id, X) resolves changes, in the whole
\* store, only name (to X) and updatedAt of group id; no other step of a
\* renameGroup call changes the store.
C5_RenameGroupFrame ==
    [][\A p \in Callers : (calls[p].op = "renameGroup" /\ Step(p)) =>
          IF calls'[p].outcome = "resolved"
          THEN /\ calls[p].id \in DOMAIN groups
               /\ groups' = [groups EXCEPT
                      ![calls[p].id].name = calls[p].name,
                      ![calls[p].id].updatedAt = groups'[calls[p].id].updatedAt]
               /\ store'["groups"].key = store["groups"].key
               /\ store'["images"] = store["images"]
          ELSE store' = store
      ]_vars

\* C5 witness: a resolved renameGroup that changed the name and updatedAt of
\* its group while another group is stored.
C5_Witness ==
    \E p \in Callers :
        /\ Resolved(p, "renameGroup")
        /\ Fresh("groups", p)
        /\ undo["groups"].recs[calls[p].id].name # groups[calls[p].id].name
        /\ undo["groups"].recs[calls[p].id].updatedAt # groups[calls[p].id].updatedAt
        /\ \E g \in DOMAIN groups : g # calls[p].id

\* C6: no step changes groupId, blob or createdAt of an image that is stored
\* before and after it; the step in which renameImage(id, X) resolves changes
\* only that image's name, and no other step of a renameImage call changes
\* the store.
C6_ImageFrame ==
    [][/\ \A i \in DOMAIN images \cap DOMAIN images' :
            /\ images'[i].groupId = images[i].groupId
            /\ images'[i].blob = images[i].blob
            /\ images'[i].createdAt = images[i].createdAt
       /\ \A p \in Callers : (calls[p].op = "renameImage" /\ Step(p)) =>
            IF calls'[p].outcome = "resolved"
            THEN /\ calls[p].id \in DOMAIN images
                 /\ images' = [images EXCEPT ![calls[p].id].name = calls[p].name]
                 /\ store'["images"].key = store["images"].key
                 /\ store'["groups"] = store["groups"]
            ELSE store' = store
      ]_vars

\* C6 witness: a resolved renameImage that changed its image's name.
C6_Witness ==
    \E p \in Callers :
        /\ Resolved(p, "renameImage")
        /\ Fresh("images", p)
        /\ undo["images"].recs[calls[p].id].name # images[calls[p].id].name

\* C7: a rename whose read finds no record with its id settles rejected, with
\* the not-found message unless the engine failed, writes nothing and leaves
\* the store unchanged.
C7_RenameMissing ==
    [][\A p \in Callers :
          (/\ calls[p].op \in {"renameGroup", "renameImage"}
           /\ calls[p].pc = "get"
           /\ calls[p].id \notin DOMAIN store[Scope(calls[p].op, "get")].recs
           /\ Step(p)) =>
              /\ calls'[p].pc = "settled"
              /\ calls'[p].outcome = "rejected"
              /\ calls'[p].fault
                   \/ calls'[p].err = (IF calls[p].op = "renameGroup"
                                       THEN GroupNotFound ELSE ImageNotFound)
              /\ store' = store
      ]_vars

\* C7 witness: a renameGroup and a renameImage both rejected as not found.
C7_Witness ==
    \E p, q \in Callers :
        /\ Settled(p, "renameGroup") /\ calls[p].err = GroupNotFound
        /\ Settled(q, "renameImage") /\ calls[q].err = ImageNotFound

\* C8: getGroup(id) resolves with null when no group has that id and with the
\* stored record otherwise; it rejects only on an engine failure (calls one
\* at a time).
C8_GetGroup ==
    \A p \in Callers : Settled(p, "getGroup") =>
        /\ calls[p].outcome = "rejected" => calls[p].fault
        /\ calls[p].outcome = "resolved" =>
             IF calls[p].id \in DOMAIN groups
             THEN calls[p].result = <<groups[calls[p].id]>>
             ELSE calls[p].result = << >>

\* C8 witness: getGroup resolved with null for the id of a deleted group.
C8_Witness ==
    \E p \in Callers :
        /\ Resolved(p, "getGroup")
        /\ calls[p].result = << >>
        /\ calls[p].id <= store["groups"].key

\* The id of caller p's delete call names no record of the store it deletes from.
DeleteMissing(p) ==
    \/ calls[p].op = "deleteImage" /\ calls[p].id \notin DOMAIN images
    \/ calls[p].op = "deleteGroup" /\ calls[p].id \notin DOMAIN groups

\* C9 as stated: while a deleteImage(id) or deleteGroup(id) on an id that is
\* not in the store is in flight no step changes the store, and the call
\* does not reject unless the engine failed (calls one at a time).
C9_Original ==
    [][\A p \in Callers : (InFlight(calls[p]) /\ DeleteMissing(p)) =>
          /\ store' = store
          /\ calls'[p].outcome = "rejected" => calls'[p].fault
      ]_vars

\* C9 amended: such a call does not reject unless the engine failed;
\* deleteImage leaves the store unchanged; deleteGroup leaves 'groups'
\* unchanged and removes (or, aborting, restores) only images whose groupId
\* is id, so it leaves the store unchanged when there is none.
C9_IdempotentDelete ==
    [][\A p \in Callers : (InFlight(calls[p]) /\ DeleteMissing(p)) =>
          /\ store'["groups"] = store["groups"]
          /\ store'["images"].key = store["images"].key
          /\ \A i \in DOMAIN images \cup DOMAIN images' :
                 \/ /\ i \in DOMAIN images \cap DOMAIN images'
                    /\ images'[i] = images[i]
                 \/ /\ calls[p].op = "deleteGroup"
                    /\ i \in DOMAIN images => images[i].groupId = calls[p].id
                    /\ i \in DOMAIN images' => images'[i].groupId = calls[p].id
          /\ calls'[p].outcome = "rejected" => calls'[p].fault
      ]_vars

\* C9 witness: a second deleteGroup(id), of a group deleted before, resolved.
C9_Witness ==
    \E p \in Callers :
        /\ Resolved(p, "deleteGroup")
        /\ Fresh("groups", p)
        /\ calls[p].id \notin DOMAIN undo["groups"].recs
        /\ calls[p].id <= store["groups"].key

\* C10: renameGroup(id, "") on an existing group is rejected and the group
\* keeps its name (calls one at a time).
C10_EmptyNameRejected ==
    \A p \in Callers :
        (/\ Settled(p, "renameGroup") /\ calls[p].name = ""
         /\ Fresh("groups", p)
         /\ calls[p].id \in DOMAIN undo["groups"].recs
         /\ undo["groups"].recs[calls[p].id].name # "") =>
            /\ calls[p].outcome = "rejected"
            /\ groups[calls[p].id].name = undo["groups"].recs[calls[p].id].name

\* C11: every stored group and every stored image has a non-empty name,
\* whatever names createGroup, addImage, renameGroup and renameImage were
\* called with (calls one at a time).
C11_NonEmptyNames ==
    /\ \A g \in DOMAIN groups : groups[g].name # ""
    /\ \A i \in DOMAIN images : images[i].name # ""

\* C12: while deleteGroup(G) is in flight no step adds, removes or changes a
\* group other than G or an image whose groupId is not G, and no key
\* generator moves (calls one at a time).
C12_CascadeFrame ==
    [][\A p \in Callers : (calls[p].op = "deleteGroup" /\ InFlight(calls[p])) =>
          /\ \A g \in (DOMAIN groups \cup DOMAIN groups') \ {calls[p].id} :
                 /\ g \in DOMAIN groups \cap DOMAIN groups'
                 /\ groups'[g] = groups[g]
          /\ \A i \in DOMAIN images \cup DOMAIN images' :
                 \/ /\ i \in DOMAIN images \cap DOMAIN images'
                    /\ images'[i] = images[i]
                 \/ /\ i \in DOMAIN images => images[i].groupId = calls[p].id
                    /\ i \in DOMAIN images' => images'[i].groupId = calls[p].id
          /\ store'["groups"].key = store["groups"].key
          /\ store'["images"].key = store["images"].key
      ]_vars

\* C12 witness: deleteGroup(G) resolved on a group G that had no image, while
\* another group and its image are stored.
C12_Witness ==
    \E p \in Callers :
        /\ Resolved(p, "deleteGroup")
        /\ Fresh("groups", p) /\ Fresh("images", p)
        /\ calls[p].id \in DOMAIN undo["groups"].recs
        /\ IndexGroupId(undo["images"].recs, calls[p].id) = {}
        /\ calls[p].id \notin DOMAIN groups
        /\ \E i \in DOMAIN images : images[i].groupId \in DOMAIN groups

\* C13: the step in which createGroup(name) resolves adds one group record,
\* under the id the call resolves with and with the name given, and changes
\* nothing else in the store; no other step of a createGroup call changes
\* the store.
C13_CreateGroupEffect ==
    [][\A p \in Callers : (calls[p].op = "createGroup" /\ Step(p)) =>
          IF calls'[p].outcome = "resolved"
          THEN /\ calls'[p].resultId \notin DOMAIN groups
               /\ DOMAIN groups' = DOMAIN groups \cup {calls'[p].resultId}
               /\ \A g \in DOMAIN groups : groups'[g] = groups[g]
               /\ groups'[calls'[p].resultId].id = calls'[p].resultId
               /\ groups'[calls'[p].resultId].name = calls[p].name
               /\ images' = images
          ELSE store' = store
      ]_vars

\* C13 witness: a resolved createGroup whose record is stored next to an
\* older group and an image.
C13_Witness ==
    \E p \in Callers :
        /\ Resolved(p, "createGroup")
        /\ Fresh("groups", p)
        /\ calls[p].resultId \in DOMAIN groups
        /\ calls[p].resultId \notin DOMAIN undo["groups"].recs
        /\ undo["groups"].recs # NoRecs
        /\ images # NoRecs

\* C14: right after createGroup resolves, the new group's createdAt and
\* updatedAt are equal (calls one at a time).
C14_SingleNow ==
    \A p \in Callers :
        (Resolved(p, "createGroup") /\ Fresh("groups", p)) =>
            groups[calls[p].resultId].createdAt = groups[calls[p].resultId].updatedAt

\* C15: in each store every record sits under its own id, no id exceeds the
\* key generator's number, that number never goes down, and the id a
\* createGroup or addImage resolves with is above every id handed out before
\* (so ids are unique, increase in creation order, and a freed id is not reused).
C15_IdsIncreasing ==
    [][/\ \A s \in Stores :
            /\ store'[s].key >= store[s].key
            /\ \A k \in DOMAIN store'[s].recs :
                   store'[s].recs[k].id = k /\ k <= store'[s].key
       /\ \A p \in Callers :
            (/\ calls[p].op \in {"createGroup", "addImage"}
             /\ Step(p) /\ calls'[p].outcome = "resolved") =>
                LET s == Scope(calls[p].op, "request") IN
                    /\ calls'[p].resultId > store[s].key
                    /\ \A k \in DOMAIN store[s].recs : k < calls'[p].resultId
                    /\ calls'[p].resultId \in DOMAIN store'[s].recs
                    /\ store'[s].key = calls'[p].resultId
      ]_vars

\* C15 witness: addImage resolved with id 2 after image 1 was deleted.
C15_Witness ==
    \E p \in Callers :
        /\ Resolved(p, "addImage")
        /\ calls[p].resultId = 2
        /\ DOMAIN images = {2}

\* Store s as its last committed transaction left it.
Committed(s) ==
    IF txq[s] # << >> /\ txq[s][1].state # "queued" THEN undo[s] ELSE store[s]

\* C16: an id that was handed out and is no longer in the committed store
\* is in no later committed store, whatever calls overlap.
C16_DeletionTerminal ==
    [][\A s \in Stores : \A k \in 1..Committed(s).key :
          k \notin DOMAIN Committed(s).recs => k \notin DOMAIN Committed(s)'.recs
      ]_vars

\* C16 witness: a renameImage of the id a deleteImage by the other caller
\* removed: rejected as not found, the id still absent.
C16_Witness ==
    \E p, q \in Callers :
        /\ Settled(p, "renameImage") /\ calls[p].err = ImageNotFound
        /\ calls[q].op = "deleteImage" /\ calls[q].outcome = "resolved"
        /\ calls[q].id = calls[p].id
        /\ calls[p].id <= store["images"].key
        /\ calls[p].id \notin DOMAIN Committed("images").recs

\* C17: between a rename's read and its write no other step changes the
\* rename's store; the write stores the record read with the new name (and,
\* for a group, the updatedAt taken at the read, not earlier than the stored
\* one) and nothing else; the record stays so until the rename's transaction
\* commits; a rename rejects only when its record is missing or the engine
\* failed.
C17_RenameAtomic ==
    [][\A p \in Callers : calls[p].op \in {"renameGroup", "renameImage"} =>
          LET s == Scope(calls[p].op, "get")
              id == calls[p].id
          IN  /\ (calls[p].pc = "put" /\ ~Step(p)) => store'[s] = store[s]
              /\ (calls[p].pc = "put" /\ calls'[p].outcome = "resolved") =>
                     /\ id \in DOMAIN store[s].recs
                     /\ store'[s] = [store[s] EXCEPT !.recs[id] = calls[p].rec[1]]
                     /\ calls[p].rec[1].name = calls[p].name
                     /\ IF s = "groups"
                        THEN /\ calls[p].rec[1] =
                                  [store[s].recs[id] EXCEPT
                                      !.name = calls[p].name,
                                      !.updatedAt = calls[p].rec[1].updatedAt]
                             /\ calls[p].rec[1].updatedAt >= store[s].recs[id].updatedAt
                        ELSE calls[p].rec[1] =
                                  [store[s].recs[id] EXCEPT !.name = calls[p].name]
              /\ (calls[p].outcome = "resolved" /\ Fresh(s, p)) => store'[s] = store[s]
              /\ (Step(p) /\ calls'[p].outcome = "rejected") =>
                     calls'[p].fault \/ id \notin DOMAIN store[s].recs
      ]_vars

\* C17 witness: both callers renamed the same group, to different names, and
\* both resolved; the group carries the name of the one whose transaction
\* is the later.
C17_Witness ==
    \E p, q \in Callers :
        /\ Resolved(p, "renameGroup") /\ Resolved(q, "renameGroup")
        /\ calls[p].id = calls[q].id /\ calls[p].name # calls[q].name
        /\ Fresh("groups", q)
        /\ groups[calls[q].id].name = calls[q].name
        /\ groups[calls[q].id].updatedAt > groups[calls[q].id].createdAt

\* C18: a call is resolved only when no transaction it opened is still
\* live, that is uncommitted (overlapping calls, commits may fail).
C18_ResolveAfterCommit ==
    \A p \in Callers : calls[p].outcome = "resolved" =>
        \A s \in Stores : \A k \in 1..Len(txq[s]) : txq[s][k].owner # p

\* C19: every call made is eventually settled, resolved or rejected, when
\* the engine answers every open request (with success, error or blocked)
\* and every transaction request.
C19_EventuallySettles ==
    \A p \in Callers :
        (calls[p].outcome = "pending") ~> (calls[p].outcome \in {"resolved", "rejected"})

\* C20: over any sequence of calls the database is opened at most once.
C20_OpenedOnce == opens <= 1

\* C21: when the engine refuses an open request, by an error or by blocked,
\* the call is rejected with the connection failure in that step, no
\* transaction is opened and the store is unchanged.
C21_OpenRefused ==
    [][\A p \in Callers :
          (/\ calls[p].pc \in {"openDB", "openDB2"}
           /\ calls'[p].pc \in {"settled", "blocked"}) =>
              /\ calls'[p].outcome = "rejected"
              /\ calls'[p].err = "Database failed to open"
              /\ store' = store
              /\ txq' = txq
      ]_vars

\* The functions of the service and the positions of a call in flight.
Operations ==
    {"createGroup", "getAllGroups", "getGroup", "renameGroup", "deleteGroup",
     "addImage", "getImagesByGroup", "renameImage", "deleteImage"}
Positions == {"openDB", "openDB2", "request", "get", "put", "cursor"}

\* The messages of the service's own errors: connection, read, write and
\* not-found failures.
Normalized ==
    {ErrorMessage(op, pc) : op \in Operations, pc \in Positions}
        \cup {GroupNotFound, ImageNotFound}

\* C22: every rejected call carries one of the service's own error messages,
\* never the engine's exception (overlapping calls, executors may throw).
C22_ErrorsNormalized ==
    \A p \in Callers : calls[p].outcome = "rejected" => calls[p].err \in Normalized

\* C23: addImage does not look the group up: the step in which it resolves
\* stores one new image under the id resolved with, carrying the groupId,
\* name and blob given, whether or not a group with that id exists, and
\* changes nothing else; addImage rejects only when the engine failed.
C23_AddImageUnvalidated ==
    [][\A p \in Callers : (calls[p].op = "addImage" /\ Step(p)) =>
          /\ calls'[p].outcome = "rejected" => calls'[p].fault
          /\ IF calls'[p].outcome = "resolved"
             THEN /\ calls'[p].resultId \notin DOMAIN images
                  /\ images' = With(images, calls'[p].resultId,
                         [id |-> calls'[p].resultId, groupId |-> calls[p].id,
                          name |-> calls[p].name, blob |-> calls[p].blob,
                          createdAt |-> images'[calls'[p].resultId].createdAt])
                  /\ store'["groups"] = store["groups"]
             ELSE store' = store
      ]_vars

\* C23 witness: addImage resolved for a groupId that names no group, and the
\* image is stored with that groupId.
C23_Witness ==
    \E p \in Callers :
        /\ Resolved(p, "addImage")
        /\ Fresh("images", p)
        /\ calls[p].id \notin DOMAIN groups
        /\ calls[p].resultId \in DOMAIN images
        /\ images[calls[p].resultId].groupId = calls[p].id

\* C24: getAllGroups resolves with the stored groups, each once, in
\* ascending id order, and rejects only when the engine failed (calls one
\* at a time).
C24_GetAllGroups ==
    \A p \in Callers : Settled(p, "getAllGroups") =>
        /\ calls[p].outcome = "rejected" => calls[p].fault
        /\ calls[p].outcome = "resolved" =>
             /\ Elements(calls[p].result) = Records(groups)
             /\ Len(calls[p].result) = Cardinality(DOMAIN groups)
             /\ \A j, k \in 1..Len(calls[p].result) :
                    j < k => calls[p].result[j].id < calls[p].result[k].id

\* C24 witness: getAllGroups resolved with two groups, the second created in
\* this session.
C24_Witness ==
    \E p \in Callers :
        /\ Resolved(p, "getAllGroups")
        /\ Len(calls[p].result) = 2
        /\ DOMAIN groups = {1, 2}

\* C25: the upgrade step keeps every object store that exists as it is,
\* records and key generator, and what it creates is empty; so does running
\* it again.
C25_UpgradeIdempotent ==
    [][/\ DOMAIN store \subseteq DOMAIN store'
       /\ \A s \in DOMAIN store : store'[s] = store[s]
       /\ \A s \in DOMAIN store' \ DOMAIN store : store'[s].recs = NoRecs
       /\ onupgradeneeded(store') = store'
      ]_vars

\* C25 witness: the upgrade has run twice on a database that already held a
\* group and an image, and both are stored.
C25_Witness ==
    /\ opens = MaxCalls
    /\ DOMAIN store = Stores
    /\ 1 \in DOMAIN groups /\ 1 \in DOMAIN images

\* C26: every stored group has updatedAt >= createdAt; a stored group's
\* updatedAt changes only in the step where a renameGroup of that group
\* resolves; that step sets it to the time the rename read, not earlier
\* than the old one and not later than the clock; a rename that rejects
\* leaves the groups as they were.
C26_UpdatedAt ==
    [][/\ \A g \in DOMAIN groups' : groups'[g].updatedAt >= groups'[g].createdAt
       /\ \A g \in DOMAIN groups \cap DOMAIN groups' :
            groups'[g].updatedAt # groups[g].updatedAt =>
                \E p \in Callers :
                    /\ calls[p].op = "renameGroup" /\ calls[p].id = g
                    /\ calls[p].pc = "put" /\ calls'[p].outcome = "resolved"
       /\ \A p \in Callers : (calls[p].op = "renameGroup" /\ Step(p)) =>
            /\ calls'[p].outcome = "resolved" =>
                   /\ groups'[calls[p].id].updatedAt = calls[p].rec[1].updatedAt
                   /\ groups'[calls[p].id].updatedAt >= groups[calls[p].id].updatedAt
                   /\ groups'[calls[p].id].updatedAt <= clock
            /\ calls'[p].outcome = "rejected" => groups' = groups
      ]_vars

\* C26 witness: a rename resolved and moved its group's updatedAt forward to
\* the clock, while a rename of a missing group was rejected.
C26_Witness ==
    \E p, q \in Callers :
        /\ Resolved(p, "renameGroup")
        /\ calls[p].id \in DOMAIN groups
        /\ groups[calls[p].id].updatedAt = MaxClock
        /\ groups[calls[p].id].createdAt = 0
        /\ Settled(q, "renameGroup") /\ calls[q].err = GroupNotFound

\* C27: when the image phase of deleteGroup(G) fails, the step that rejects
\* the call puts 'images' back as it was when the phase began, which is as
\* it was before the call, and leaves 'groups' alone (calls one at a time).
C27_BulkDeleteAtomic ==
    [][\A p \in Callers :
          (/\ calls[p].op = "deleteGroup" /\ calls[p].pc = "cursor"
           /\ calls'[p].outcome = "rejected") =>
              /\ store'["images"] = Snapshot("images")
              /\ store'["groups"] = store["groups"]
      ]_vars

\* C27 witness: deleteGroup(G) rejected in its image phase, and G still has
\* its two images.
C27_Witness ==
    \E p \in Callers :
        /\ Settled(p, "deleteGroup")
        /\ calls[p].err = "Failed to delete images"
        /\ Cardinality(IndexGroupId(images, calls[p].id)) = 2

\* The functions that read and those that write.
Reads == {"getGroup", "getAllGroups", "getImagesByGroup"}
Writes == Operations \ Reads

\* What a read of the store answers for caller p's call.
Answer(p) ==
    CASE calls[p].op = "getGroup" -> Get(groups, calls[p].id)
      [] calls[p].op = "getAllGroups" -> Ascending(groups, DOMAIN groups)
      [] calls[p].op = "getImagesByGroup" ->
             Ascending(images, IndexGroupId(images, calls[p].id))
      [] OTHER -> << >>

\* C28: no step of a read changes the store; a read resolves with what the
\* store holds at that step and rejects only when the engine failed; and the
\* store changes only in a step taken while a write is in flight, so what a
\* resolved write left is there for every read called after it (calls one
\* at a time).
C28_ReadYourWrites ==
    [][/\ \A p \in Callers : (calls[p].op \in Reads /\ Step(p)) =>
            /\ store' = store
            /\ calls'[p].outcome = "resolved" => calls'[p].result = Answer(p)
            /\ calls'[p].outcome = "rejected" => calls'[p].fault
       /\ store' # store =>
            \E p \in Callers : calls[p].op \in Writes /\ InFlight(calls[p])
      ]_vars

\* C28 witness: getGroup resolved with the record of group 2, which a
\* createGroup of this session stored.
C28_Witness ==
    \E p \in Callers :
        /\ Resolved(p, "getGroup")
        /\ calls[p].result # << >>
        /\ calls[p].result[1].id = 2

\* No call on the provider and no loadImages is in flight.
Quiescent ==
    /\ \A p \in Callers : provider.running[p].pc = "idle"
    /\ \A g \in GroupIds : provider.loading[g] = 0

\* C29: whenever nothing is in flight in the provider, its images list is
\* the stored images of the selected group, and empty when none is selected.
C29_ImagesOfSelection ==
    Quiescent =>
        provider.images =
            IF provider.selectedGroupId = Null THEN << >>
            ELSE await_getImagesByGroup(store, provider.selectedGroupId)

\* C30: whenever nothing is in flight in the provider, selectedGroupId is
\* null or the id of a stored group.
C30_SelectionExists ==
    Quiescent =>
        provider.selectedGroupId = Null \/ provider.selectedGroupId \in DOMAIN groups

====
